---- MODULE Spec2Model ----
(***************************************************************************)
(* A model of the CookieDB driver (cookiedb/cookie_esm).  Three snapshots  *)
(* of the driver are modelled side by side:                                *)
(*   "legacy"   src/unnamed/part_001  (responses are read and ignored)     *)
(*   "text"     src/mod.ts            (plain-text "success" sentinel)      *)
(*   "envelope" src/unnamed/part_000  (JSON value with an `error` field)   *)
(* A JavaScript value is a record with a tag t and a payload v.  A request *)
(* or response body is text; JSON.stringify and JSON.parse convert between *)
(* values and text.                                                        *)
(***************************************************************************)
EXTENDS Integers, Sequences, FiniteSets, TLC

VARIABLES rev, ctor, cookieDB, calls, requests, store, nextKey, schemas, users

vars == <<rev, ctor, cookieDB, calls, requests, store, nextKey, schemas, users>>

(***************************************************************************)
(* Bounds of the model.                                                    *)
(***************************************************************************)
MaxCalls == 1

MaxInFlight == 2

MaxScript == 3

MaxDemo == 14

MaxPending == 2

MaxTargets == 2

(***************************************************************************)
(* JavaScript values.                                                      *)
(***************************************************************************)
Undefined == [t |-> "undefined"]

Null == [t |-> "null"]

Bool(b) == [t |-> "boolean", v |-> b]

Num(n) == [t |-> "number", v |-> n]

Str(s) == [t |-> "string", v |-> s]

Arr(items) == [t |-> "array", v |-> items]

Prop(k, x) == [k |-> k, v |-> x]

Obj(props) == [t |-> "object", v |-> props]

ErrorObject(name) == [t |-> "Error", v |-> name]

\* The result of evaluating an expression: a value, or a thrown value.
Normal(x) == [threw |-> FALSE, value |-> x]

Throw(x) == [threw |-> TRUE, value |-> x]

\* ToBoolean: undefined, null, false, 0 and "" are falsy, all else truthy.
Truthy(x) ==
    CASE x.t = "undefined" -> FALSE
      [] x.t = "null" -> FALSE
      [] x.t = "boolean" -> x.v
      [] x.t = "number" -> x.v # 0
      [] x.t = "string" -> x.v # ""
      [] OTHER -> TRUE

IsArray(x) == x.t = "array"

\* x[name]: a TypeError on undefined and null, the own property of an
\* object, undefined on every other value (no value here has an inherited
\* property of the names the driver reads).
GetProp(x, name) ==
    IF x.t \in {"undefined", "null"}
    THEN Throw(ErrorObject("TypeError"))
    ELSE IF x.t = "object" /\ \E i \in 1..Len(x.v) : x.v[i].k = name
         THEN Normal(x.v[CHOOSE i \in 1..Len(x.v) :
                            /\ x.v[i].k = name
                            /\ \A j \in (i+1)..Len(x.v) : x.v[j].k # name].v)
         ELSE Normal(Undefined)

(***************************************************************************)
(* JSON.  A text is read and written one character at a time.  A number   *)
(* is an integer, or a decimal m * 10^e (e below 0, m no multiple of 10),  *)
(* which is a number value with a field e; both within the integers of the *)
(* checker.  The characters of a string are those of Ascii, the tabulator, *)
(* the line feed, the form feed and the carriage return.                   *)
(***************************************************************************)
\* The characters with the codes 32 to 126 but 96 (a string of this
\* language cannot hold the grave accent), in the order of their codes.
Ascii ==
    " !\"#$%&'()*+,-./0123456789:;<=>?@ABCDEFGHIJKLMNOPQRSTUVWXYZ[\\]^_"
    \o "abcdefghijklmnopqrstuvwxyz{|}~"

\* The character with the code n.  A code whose character the strings of
\* the model do not have has no value here.
CharOfCode(n) ==
    CASE n \in 32..95 -> SubSeq(Ascii, n - 31, n - 31)
      [] n \in 97..126 -> SubSeq(Ascii, n - 32, n - 32)
      [] n = 9 -> "\t"
      [] n = 10 -> "\n"
      [] n = 12 -> "\f"
      [] n = 13 -> "\r"

\* The README's query, the one string of the model with double quotes.
QueryReadme == "starts_with($name, \"cookie\")"

\* The character of the text at position i, the empty text past its end.
CharAt(text, i) == IF i \in 1..Len(text) THEN SubSeq(text, i, i) ELSE ""

\* A character as JSON.stringify writes it between the quotes of a string.
EscapeChar(c) ==
    CASE c = "\"" -> "\\\""
      [] c = "\\" -> "\\\\"
      [] c = "\n" -> "\\n"
      [] c = "\t" -> "\\t"
      [] c = "\r" -> "\\r"
      [] c = "\f" -> "\\f"
      [] OTHER -> c

RECURSIVE Escape(_)

\* s as it stands between the quotes of a JSON string.
Escape(s) ==
    IF s = "" THEN ""
    ELSE EscapeChar(CharAt(s, 1)) \o Escape(SubSeq(s, 2, Len(s)))

RECURSIVE JSONtext(_), JoinElements(_), JoinProps(_)

\* The elements of an array, comma separated; undefined is written null.
JoinElements(items) ==
    IF Len(items) = 0 THEN ""
    ELSE LET first == IF Head(items).t = "undefined" THEN "null"
                      ELSE JSONtext(Head(items))
         IN IF Len(items) = 1 THEN first
            ELSE first \o "," \o JoinElements(Tail(items))

\* The properties of an object in insertion order, comma separated; a
\* property whose value is undefined is left out.
JoinProps(props) ==
    IF Len(props) = 0 THEN ""
    ELSE IF Head(props).v.t = "undefined" THEN JoinProps(Tail(props))
    ELSE LET first == "\"" \o Escape(Head(props).k) \o "\":"
                      \o JSONtext(Head(props).v)
             rest == JoinProps(Tail(props))
         IN IF rest = "" THEN first ELSE first \o "," \o rest

\* The decimal m * 10^e as Number::toString writes it: its digits with the
\* point at position n = (number of digits) + e, after 0. and -n zeros
\* when n is not positive, and with an exponent when n is below -5.
DecimalText(sign, digits, n) ==
    sign \o
    (CASE n > 0 ->
            SubSeq(digits, 1, n) \o "." \o SubSeq(digits, n + 1, Len(digits))
       [] n \in -5..0 -> "0." \o SubSeq("00000", 1, -n) \o digits
       [] n < -5 /\ Len(digits) = 1 -> digits \o "e-" \o ToString(1 - n)
       [] n < -5 /\ Len(digits) > 1 ->
            SubSeq(digits, 1, 1) \o "." \o SubSeq(digits, 2, Len(digits))
            \o "e-" \o ToString(1 - n))

JSONtext(x) ==
    CASE x.t = "null" -> "null"
      [] x.t = "boolean" -> IF x.v THEN "true" ELSE "false"
      [] x.t = "number" /\ "e" \notin DOMAIN x -> ToString(x.v)
      [] x.t = "number" /\ "e" \in DOMAIN x ->
           DecimalText(IF x.v < 0 THEN "-" ELSE "",
                       ToString(IF x.v < 0 THEN -x.v ELSE x.v),
                       Len(ToString(IF x.v < 0 THEN -x.v ELSE x.v)) + x.e)
      [] x.t = "string" -> "\"" \o Escape(x.v) \o "\""
      [] x.t = "array" -> "[" \o JoinElements(x.v) \o "]"
      [] x.t = "object" -> "{" \o JoinProps(x.v) \o "}"

\* JSON.stringify(x): undefined for undefined, else the text of x.
JSONstringify(x) == IF x.t = "undefined" THEN Undefined ELSE Str(JSONtext(x))

(***************************************************************************)
(* The data of the model: the README's documents and a few more.           *)
(***************************************************************************)
Schema1 == Obj(<<Prop("name", Str("string")),
                 Prop("description", Str("nullable string")),
                 Prop("age", Str("number"))>>)

Doc1 == Obj(<<Prop("name", Str("cookie_fan")),
              Prop("description", Null),
              Prop("age", Num(20))>>)

Doc2 == Obj(<<Prop("name", Str("cookie_monster"))>>)

Partial == Obj(<<Prop("description", Str("a huge fan of cookies")),
                 Prop("age", Num(21))>>)

\* The whole document the repository's test updates with.
Doc1Updated == Obj(<<Prop("name", Str("cookie_fan")),
                     Prop("description", Str("a huge fan of cookies")),
                     Prop("age", Num(21))>>)

\* A schema with a nested schema.
SchemaNested ==
    Obj(<<Prop("name", Str("string")),
          Prop("profile", Obj(<<Prop("bio", Str("nullable string"))>>))>>)

\* The schemas tables are created with: the demo's two, a nested one, one
\* with modifiers and the empty one.
Schemas ==
    {Schema1, Obj(<<Prop("name", Str("string"))>>), SchemaNested,
     Obj(<<Prop("name", Str("unique string")),
           Prop("description", Str("string nullable unique")),
           Prop("age", Str("number"))>>),
     Obj(<<>>)}

EditOpts == Obj(<<Prop("name", Str("deprecatedUsers")),
                  Prop("schema", Obj(<<Prop("name", Str("string"))>>)),
                  Prop("alias", Obj(<<Prop("name", Str("$name"))>>))>>)

Query1 == "eq($age, 20)"

SelectOptions == Obj(<<Prop("maxResults", Num(5))>>)

\* Options that every snapshot but the oldest has.
SelectOptionsSorted ==
    Obj(<<Prop("maxResults", Num(5)),
          Prop("expandKeys", Bool(TRUE)),
          Prop("order", Obj(<<Prop("by", Str("age"))>>))>>)

\* Options without maxResults: the keys, an alias and an order.
SelectOptionsOrder ==
    Obj(<<Prop("showKeys", Bool(TRUE)),
          Prop("expandKeys", Bool(TRUE)),
          Prop("alias", Obj(<<Prop("name", Str("$name"))>>)),
          Prop("order", Obj(<<Prop("by", Str("age")),
                              Prop("descending", Bool(TRUE))>>))>>)

UserOptions == Obj(<<Prop("username", Str("cookie_fan")),
                     Prop("token", Str("a_very_secure_password"))>>)

\* The user of the repository's test.
UserOptionsTest == Obj(<<Prop("username", Str("cookie fan")),
                         Prop("token", Str("a_very_secure_password"))>>)

\* Options whose token is one a server generates.
UserOptionsToken1 == Obj(<<Prop("username", Str("cookie_fan")),
                           Prop("token", Str("token1"))>>)

Tables == {"users"}

Keys == {"k1"}

Usernames == {"cookie_fan"}

\* x with the property key: k appended (a document as a read returns it).
WithKey(x, k) == Obj(Append(x.v, Prop("key", Str(k))))

\* An options?.name that is null for a member that is not there.
OptionOrNull(options, name) ==
    IF options.t \in {"undefined", "null"} THEN Null
    ELSE IF GetProp(options, name).value.t = "undefined" THEN Null
    ELSE GetProp(options, name).value

\* options?.name
Option(options, name) ==
    IF options.t \in {"undefined", "null"} THEN Undefined
    ELSE GetProp(options, name).value

\* a ?? b
Coalesce(a, b) == IF a.t \in {"undefined", "null"} THEN b ELSE a

\* A text snapshot that still sends the flags of the oldest one.
SelectPropsOldFlags(r, where, options) ==
    IF r = "envelope"
    THEN <<Prop("where", where),
           Prop("max_results", Option(options, "maxResults")),
           Prop("expand_keys", Option(options, "expandKeys")),
           Prop("alias", Option(options, "alias")),
           Prop("order", Option(options, "order"))>>
    ELSE <<Prop("where", where),
           Prop("max_results", Coalesce(Option(options, "maxResults"), Num(-1))),
           Prop("show_keys", Coalesce(Option(options, "showKeys"), Bool(FALSE))),
           Prop("expand_keys",
                Coalesce(Option(options, "expandKeys"), Bool(FALSE)))>>

\* The object select passes to JSON.stringify.
SelectProps(r, where, options) ==
    CASE r = "legacy" ->
           <<Prop("where", where),
             Prop("max_results",
                  Coalesce(Option(options, "maxResults"), Num(-1))),
             Prop("show_keys",
                  Coalesce(Option(options, "showKeys"), Bool(FALSE))),
             Prop("expand_keys",
                  Coalesce(Option(options, "expandKeys"), Bool(FALSE)))>>
      [] r = "text" ->
           <<Prop("where", where),
             Prop("max_results", Option(options, "maxResults")),
             Prop("show_keys", Option(options, "showKeys")),
             Prop("expand_keys", Option(options, "expandKeys")),
             Prop("order", Option(options, "order"))>>
      [] r = "envelope" ->
           <<Prop("where", where),
             Prop("max_results", Option(options, "maxResults")),
             Prop("expand_keys", Option(options, "expandKeys")),
             Prop("alias", Option(options, "alias")),
             Prop("order", Option(options, "order"))>>

HasField(x, name) == x.t = "object" /\ \E n \in 1..Len(x.v) : x.v[n].k = name

\* The value of the digit c, -1 for a character that is no digit.
DigitValue(c) ==
    CASE c = "0" -> 0 [] c = "1" -> 1 [] c = "2" -> 2 [] c = "3" -> 3
      [] c = "4" -> 4 [] c = "5" -> 5 [] c = "6" -> 6 [] c = "7" -> 7
      [] c = "8" -> 8 [] c = "9" -> 9 [] OTHER -> -1

\* Is the number written a below the number written b?  Both are digits
\* without a leading 0.
NumberBelow(a, b) ==
    \/ Len(a) < Len(b)
    \/ /\ Len(a) = Len(b)
       /\ \E n \in 1..Len(a) :
             /\ SubSeq(a, 1, n - 1) = SubSeq(b, 1, n - 1)
             /\ DigitValue(SubSeq(a, n, n)) < DigitValue(SubSeq(b, n, n))

\* Is the property name an array index: a number from 0 to 2^32 - 2
\* written without a leading 0?
IsIndex(k) ==
    /\ k # ""
    /\ \A n \in 1..Len(k) : DigitValue(SubSeq(k, n, n)) >= 0
    /\ Len(k) = 1 \/ SubSeq(k, 1, 1) # "0"
    /\ NumberBelow(k, "4294967295")

\* props with the property p set: in its place when props has one of its
\* name; a new property goes after the ones an object lists before it,
\* which are the indices below it for an index (indices come first, in
\* ascending order) and all there are for any other name (in the order
\* they were set).
SetProp(props, p) ==
    IF \E n \in 1..Len(props) : props[n].k = p.k
    THEN [n \in 1..Len(props) |-> IF props[n].k = p.k THEN p ELSE props[n]]
    ELSE IF ~IsIndex(p.k) THEN Append(props, p)
    ELSE CHOOSE r \in
           {SubSeq(props, 1, n) \o <<p>> \o SubSeq(props, n + 1, Len(props)) :
              n \in {Cardinality({m \in 1..Len(props) :
                                     /\ IsIndex(props[m].k)
                                     /\ NumberBelow(props[m].k, p.k)})}} :
           TRUE

RECURSIVE MergeProps(_, _)

MergeProps(props, partial) ==
    IF Len(partial) = 0 THEN props
    ELSE MergeProps(SetProp(props, Head(partial)), Tail(partial))

\* The stored document with the fields of the partial document merged in.
Merge(document, partial) == Obj(MergeProps(document.v, partial.v))

TokenOf(n) == "token" \o ToString(n)

(***************************************************************************)
(* JSON.parse.  A parse of a part of a text yields the value read and the  *)
(* position after it, or fails.  What a step of the parse has read is      *)
(* named by a variable bound to it (x \in {...}) before the parse goes on: *)
(* a text is read once, from its start to its end.                         *)
(***************************************************************************)
Parsed(x, i) == [ok |-> TRUE, value |-> x, next |-> i]

NotParsed == [ok |-> FALSE, value |-> Undefined, next |-> 0]

\* The value of the hexadecimal digit c, -1 for a character that is none.
HexValue(c) ==
    CASE c \in {"a", "A"} -> 10 [] c \in {"b", "B"} -> 11
      [] c \in {"c", "C"} -> 12 [] c \in {"d", "D"} -> 13
      [] c \in {"e", "E"} -> 14 [] c \in {"f", "F"} -> 15
      [] OTHER -> DigitValue(c)

RECURSIVE SkipWhitespace(_, _)

\* The position of the first character from i on that is not white space.
SkipWhitespace(text, i) ==
    IF CharAt(text, i) \in {" ", "\t", "\n", "\r"}
    THEN SkipWhitespace(text, i + 1) ELSE i

\* Does the text have the word at position i?
HasWord(text, i, word) ==
    /\ i + Len(word) - 1 <= Len(text)
    /\ SubSeq(text, i, i + Len(word) - 1) = word

RECURSIVE ParseDigits(_, _, _)

\* The digits from position i on, n the number read so far.
ParseDigits(text, i, n) ==
    IF DigitValue(CharAt(text, i)) >= 0
    THEN ParseDigits(text, i + 1, 10 * n + DigitValue(CharAt(text, i)))
    ELSE Parsed(Num(n), i)

RECURSIVE Scaled(_, _)

\* The number m * 10^e as the double JSON.parse makes of it: an integer
\* when it is one, the decimal otherwise.  A decimal below 10^-324 is
\* below half of the smallest double and rounds to 0.  From 10^-324 up to
\* 10^-307 a double has fewer digits than the text may have (the
\* subnormal numbers): such a number has no value here.  Above, a double
\* tells the decimals of the model, which have ten digits at most, apart.
Scaled(m, e) ==
    IF e = 0 \/ m = 0 THEN Num(m)
    ELSE IF e > 0 THEN Scaled(10 * m, e - 1)
    ELSE IF m % 10 = 0 THEN Scaled(m \div 10, e + 1)
    ELSE IF Len(ToString(IF m < 0 THEN -m ELSE m)) - 1 + e < -324 THEN Num(0)
    ELSE CASE Len(ToString(IF m < 0 THEN -m ELSE m)) - 1 + e >= -307 ->
                [t |-> "number", v |-> m, e |-> e]

\* The exponent of a number, if it has one, after the digits m of its whole
\* part and its fraction, the last f of which are the fraction: e or E, an
\* optional sign, digits.
ParseExponent(text, sign, m, f) ==
    IF CharAt(text, m.next) \notin {"e", "E"}
    THEN Parsed(Scaled(sign * m.value.v, -f), m.next)
    ELSE IF CharAt(text, m.next + 1) \in {"+", "-"}
    THEN IF DigitValue(CharAt(text, m.next + 2)) < 0 THEN NotParsed
         ELSE CHOOSE r \in
                {Parsed(Scaled(sign * m.value.v,
                               (IF CharAt(text, m.next + 1) = "-"
                                THEN -x.value.v ELSE x.value.v) - f),
                        x.next) :
                   x \in {ParseDigits(text, m.next + 2, 0)}} : TRUE
    ELSE IF DigitValue(CharAt(text, m.next + 1)) < 0 THEN NotParsed
    ELSE CHOOSE r \in
           {Parsed(Scaled(sign * m.value.v, x.value.v - f), x.next) :
              x \in {ParseDigits(text, m.next + 1, 0)}} : TRUE

\* The fraction of a number, if it has one, after its whole part: a point
\* and digits, which go on the digits of the whole part.
ParseFraction(text, sign, whole) ==
    IF CharAt(text, whole.next) # "." THEN ParseExponent(text, sign, whole, 0)
    ELSE IF DigitValue(CharAt(text, whole.next + 1)) < 0 THEN NotParsed
    ELSE CHOOSE r \in
           {ParseExponent(text, sign, m, m.next - whole.next - 1) :
              m \in {ParseDigits(text, whole.next + 1, whole.value.v)}} : TRUE

\* A number without its sign (sign is 1 or -1) from position i on: its
\* whole part, 0 or digits that do not start with 0, and what follows it.
ParseNatural(text, i, sign) ==
    IF CharAt(text, i) = "0"
    THEN ParseFraction(text, sign, Parsed(Num(0), i + 1))
    ELSE IF DigitValue(CharAt(text, i)) >= 0
    THEN CHOOSE r \in {ParseFraction(text, sign, whole) :
                          whole \in {ParseDigits(text, i, 0)}} : TRUE
    ELSE NotParsed

\* The character the escape sequence \e stands for, the empty text when
\* there is no such escape sequence.
Unescaped(e) ==
    CASE e = "\"" -> "\""
      [] e = "\\" -> "\\"
      [] e = "/" -> "/"
      [] e = "b" -> CharOfCode(8)
      [] e = "f" -> CharOfCode(12)
      [] e = "n" -> CharOfCode(10)
      [] e = "r" -> CharOfCode(13)
      [] e = "t" -> CharOfCode(9)
      [] OTHER -> ""

RECURSIVE ParseChars(_, _, _), ParseChar(_, _, _, _)

\* The characters of a string from position i on up to its closing quote,
\* s the characters read so far.
ParseChars(text, i, s) == ParseChar(text, i, s, CharAt(text, i))

\* The same, c the character at position i.
ParseChar(text, i, s, c) ==
    CASE c \notin {"", "\"", "\\", "\n", "\t", "\r", "\f"} ->
           ParseChars(text, i + 1, s \o c)
      [] c = "\"" -> Parsed(Str(s), i + 1)
      [] c = "\\" /\ CharAt(text, i + 1) = "u" ->
           IF \E n \in 2..5 : HexValue(CharAt(text, i + n)) < 0 THEN NotParsed
           ELSE ParseChars(text, i + 6,
                           s \o CharOfCode(4096 * HexValue(CharAt(text, i + 2))
                                           + 256 * HexValue(CharAt(text, i + 3))
                                           + 16 * HexValue(CharAt(text, i + 4))
                                           + HexValue(CharAt(text, i + 5))))
      [] c = "\\" /\ Unescaped(CharAt(text, i + 1)) = "" -> NotParsed
      [] c = "\\" /\ Unescaped(CharAt(text, i + 1)) # "" ->
           ParseChars(text, i + 2, s \o Unescaped(CharAt(text, i + 1)))
      [] OTHER -> NotParsed

\* A string from position i on.
ParseString(text, i) ==
    IF CharAt(text, i) = "\"" THEN ParseChars(text, i + 1, "") ELSE NotParsed

RECURSIVE ParseValue(_, _), ParseElements(_, _, _), NextElement(_, _, _),
          ParseMembers(_, _, _), ParseMember(_, _, _), NextMember(_, _, _, _)

\* The elements of an array from position i on, where an element starts,
\* items the elements read so far.
ParseElements(text, i, items) ==
    CHOOSE r \in {NextElement(text, items, x) :
                     x \in {ParseValue(text, i)}} : TRUE

\* The same after the element x: a comma and the next element, or the end.
NextElement(text, items, x) ==
    IF ~x.ok THEN NotParsed
    ELSE IF CharAt(text, SkipWhitespace(text, x.next)) = ","
    THEN ParseElements(text,
                       SkipWhitespace(text, SkipWhitespace(text, x.next) + 1),
                       Append(items, x.value))
    ELSE IF CharAt(text, SkipWhitespace(text, x.next)) = "]"
    THEN Parsed(Arr(Append(items, x.value)), SkipWhitespace(text, x.next) + 1)
    ELSE NotParsed

\* The members of an object from position i on, where a name starts, props
\* the members read so far.
ParseMembers(text, i, props) ==
    CHOOSE r \in {ParseMember(text, props, name) :
                     name \in {ParseString(text, i)}} : TRUE

\* The same after the name: a colon and the value of the member.
ParseMember(text, props, name) ==
    IF ~name.ok THEN NotParsed
    ELSE IF CharAt(text, SkipWhitespace(text, name.next)) # ":" THEN NotParsed
    ELSE CHOOSE r \in
           {NextMember(text, props, name.value.v, x) :
              x \in {ParseValue(text,
                                SkipWhitespace(text,
                                    SkipWhitespace(text, name.next) + 1))}} :
           TRUE

\* The same after the value x of the member k: a comma and the next member,
\* or the end.  A name that comes again replaces the value of the member in
\* its place.
NextMember(text, props, k, x) ==
    IF ~x.ok THEN NotParsed
    ELSE IF CharAt(text, SkipWhitespace(text, x.next)) = ","
    THEN ParseMembers(text,
                      SkipWhitespace(text, SkipWhitespace(text, x.next) + 1),
                      SetProp(props, Prop(k, x.value)))
    ELSE IF CharAt(text, SkipWhitespace(text, x.next)) = "}"
    THEN Parsed(Obj(SetProp(props, Prop(k, x.value))),
                SkipWhitespace(text, x.next) + 1)
    ELSE NotParsed

\* The value that starts at position i.
ParseValue(text, i) ==
    CASE CharAt(text, i) = "{" ->
           IF CharAt(text, SkipWhitespace(text, i + 1)) = "}"
           THEN Parsed(Obj(<<>>), SkipWhitespace(text, i + 1) + 1)
           ELSE ParseMembers(text, SkipWhitespace(text, i + 1), <<>>)
      [] CharAt(text, i) = "[" ->
           IF CharAt(text, SkipWhitespace(text, i + 1)) = "]"
           THEN Parsed(Arr(<<>>), SkipWhitespace(text, i + 1) + 1)
           ELSE ParseElements(text, SkipWhitespace(text, i + 1), <<>>)
      [] CharAt(text, i) = "\"" -> ParseString(text, i)
      [] CharAt(text, i) = "-" -> ParseNatural(text, i + 1, -1)
      [] DigitValue(CharAt(text, i)) >= 0 -> ParseNatural(text, i, 1)
      [] HasWord(text, i, "true") -> Parsed(Bool(TRUE), i + 4)
      [] HasWord(text, i, "false") -> Parsed(Bool(FALSE), i + 5)
      [] HasWord(text, i, "null") -> Parsed(Null, i + 4)
      [] OTHER -> NotParsed

\* JSON.parse(text): the text as one JSON value with white space around
\* it, a SyntaxError when the value is not the whole text or nothing was
\* parsed.
JSONparse(text) ==
    CHOOSE r \in {IF x.ok /\ SkipWhitespace(text, x.next) = Len(text) + 1
                  THEN Normal(x.value)
                  ELSE Throw(ErrorObject("SyntaxError")) :
                     x \in {ParseValue(text, SkipWhitespace(text, 1))}} : TRUE

(***************************************************************************)
(* The values servers answer with.                                         *)
(***************************************************************************)
ErrorEnvelope(msg) == Obj(<<Prop("error", msg)>>)

\* The keys a server hands out: k1, k2, ... in the order of insertion.  A
\* script of MaxScript calls inserts at most two documents per call.
KeyOf(n) == "k" \o ToString(n)

ServerKeys == {KeyOf(n) : n \in 1..(2 * MaxScript)}

(***************************************************************************)
(* The driver.  `this` is the CookieDB object, r the snapshot.             *)
(***************************************************************************)
Revisions == {"legacy", "text", "envelope"}

\* A constructor that stores the token as given.
ConstructorRawToken(url, auth) == [url |-> url, auth |-> auth]

\* new CookieDB(url, auth)
Constructor(url, auth) == [url |-> url, auth |-> "Bearer " \o auth]

\* A fetch that leaves the method to its default when there is no body.
FetchDefaultMethod(url, authorization, body) ==
    [method |-> IF body.t = "undefined" THEN "GET" ELSE "POST", url |-> url,
     Authorization |-> authorization, body |-> body]

\* The request of fetch(url, {method: "POST", headers: {Authorization}, body}).
Fetch(url, authorization, body) ==
    [method |-> "POST", url |-> url, Authorization |-> authorization,
     body |-> body]

\* A createTable that never sends the schema.
createTableWithoutSchema(this, table, schema) ==
    Fetch(this.url \o "/create/" \o table, this.auth, Undefined)

createTable(this, table, schema) ==
    Fetch(this.url \o "/create/" \o table, this.auth,
          IF Truthy(schema) THEN JSONstringify(schema) ELSE Undefined)

editTable(this, table, opts) ==
    Fetch(this.url \o "/edit/" \o table, this.auth, JSONstringify(opts))

dropTable(this, table) ==
    Fetch(this.url \o "/drop/" \o table, this.auth, Undefined)

metaTable(this, table) ==
    Fetch(this.url \o "/meta/" \o table, this.auth, Undefined)

insert(this, table, document) ==
    Fetch(this.url \o "/insert/" \o table, this.auth, JSONstringify(document))

\* The oldest snapshot forces expandKeys into a boolean; the later ones send
\* it as given, so that an undefined expandKeys leaves the body {}.
get(this, r, table, key, expandKeys) ==
    Fetch(this.url \o "/get/" \o table \o "/" \o key, this.auth,
          JSONstringify(Obj(<<Prop("expand_keys",
              IF r = "legacy" THEN Bool(Truthy(expandKeys)) ELSE expandKeys)>>)))

delete(this, table, key) ==
    Fetch(this.url \o "/delete/" \o table \o "/" \o key, this.auth, Undefined)

\* A deleteByQuery that posts to a path of its own.
deleteByQueryOwnPath(this, table, query) ==
    Fetch(this.url \o "/delete_by_query/" \o table, this.auth,
          JSONstringify(Obj(<<Prop("where", query)>>)))

deleteByQuery(this, table, query) ==
    Fetch(this.url \o "/delete/" \o table, this.auth,
          JSONstringify(Obj(<<Prop("where", query)>>)))

update(this, table, key, document) ==
    Fetch(this.url \o "/update/" \o table \o "/" \o key, this.auth,
          JSONstringify(document))

\* A select that sends the flags of the oldest snapshot in every snapshot.
selectLegacyFlags(this, r, table, where, options) ==
    Fetch(this.url \o "/select/" \o table, this.auth,
          JSONstringify(Obj(SelectProps("legacy", where, options))))

select(this, r, table, where, options) ==
    Fetch(this.url \o "/select/" \o table, this.auth,
          JSONstringify(Obj(SelectProps(r, where, options))))

meta(this) == Fetch(this.url \o "/meta", this.auth, Undefined)

createUser(this, options) ==
    Fetch(this.url \o "/create_user", this.auth, JSONstringify(options))

deleteUser(this, username) ==
    Fetch(this.url \o "/delete_user/" \o username, this.auth, Undefined)

\* A regenerateToken that names no user.
regenerateTokenOfCaller(this, username) ==
    Fetch(this.url \o "/regenerate_token", this.auth, Undefined)

regenerateToken(this, username) ==
    Fetch(this.url \o "/regenerate_token/" \o username, this.auth, Undefined)

\* The methods each snapshot has.
Methods(r) ==
    {"createTable", "dropTable", "insert", "get", "delete", "update", "select"}
    \cup (IF r = "legacy" THEN {}
          ELSE {"metaTable", "deleteByQuery", "meta", "createUser",
                "deleteUser", "regenerateToken"})
    \cup (IF r = "envelope" THEN {"editTable"} ELSE {})

(***************************************************************************)
(* A call of a method: the method's name and its arguments.  arg is the    *)
(* schema, opts, document, query or where argument, options the expandKeys *)
(* or options argument; an argument the method does not have is "" or      *)
(* undefined.                                                              *)
(***************************************************************************)
Invocation(op, table, key, username, arg, options) ==
    [op |-> op, table |-> table, key |-> key, username |-> username,
     arg |-> arg, options |-> options]

\* The requests the call c issues: every method calls fetch once.
RequestsOf(this, r, c) ==
    << CASE c.op = "createTable" -> createTable(this, c.table, c.arg)
         [] c.op = "editTable" -> editTable(this, c.table, c.arg)
         [] c.op = "dropTable" -> dropTable(this, c.table)
         [] c.op = "metaTable" -> metaTable(this, c.table)
         [] c.op = "insert" -> insert(this, c.table, c.arg)
         [] c.op = "get" -> get(this, r, c.table, c.key, c.options)
         [] c.op = "delete" -> delete(this, c.table, c.key)
         [] c.op = "deleteByQuery" -> deleteByQuery(this, c.table, c.arg)
         [] c.op = "update" -> update(this, c.table, c.key, c.arg)
         [] c.op = "select" -> select(this, r, c.table, c.arg, c.options)
         [] c.op = "meta" -> meta(this)
         [] c.op = "createUser" -> createUser(this, c.arg)
         [] c.op = "deleteUser" -> deleteUser(this, c.username)
         [] c.op = "regenerateToken" -> regenerateToken(this, c.username) >>

(***************************************************************************)
(* What the transport hands back for a request.  The fetch resolves with a *)
(* response as soon as its head is there, or rejects with a TypeError; the *)
(* body of a response comes after the head, and its stream is open until   *)
(* the body is there as a whole (closed) or the stream has failed          *)
(* (errored), which makes req.json() and req.text() reject with a          *)
(* TypeError.  No method catches either rejection.                         *)
(***************************************************************************)
NoOutcome == [kind |-> "none", body |-> "", stream |-> "none"]

\* A response whose body a server has sent and the client does not have yet.
Sent(body) == [kind |-> "response", body |-> body, stream |-> "open"]

\* A response with its body read to the end.
Response(body) == [kind |-> "response", body |-> body, stream |-> "closed"]

\* A response whose body stream failed.
Broken == [kind |-> "response", body |-> "", stream |-> "errored"]

Failure == [kind |-> "failure", body |-> "", stream |-> "none"]

\* How an async method ends.
Resolve(x) == [state |-> "resolved", value |-> x]

Reject(x) == [state |-> "rejected", value |-> x]

\* A reader that falls back to the text when the body is not JSON.
ReturnJsonOrText(body) ==
    CHOOSE end \in {IF res.threw THEN Resolve(Str(body))
                    ELSE Resolve(res.value) : res \in {JSONparse(body)}} : TRUE

\* return await req.json()
ReturnJson(body) ==
    CHOOSE end \in {IF res.threw THEN Reject(res.value)
                    ELSE Resolve(res.value) : res \in {JSONparse(body)}} : TRUE

\* const res = await req.text(); if (res !== "success") throw res;
Sentinel(body) ==
    IF body # "success" THEN Reject(Str(body)) ELSE Resolve(Undefined)

\* const res = await req.json(); if (res.error) throw res.error;
\* and then return res, or nothing.
Envelope(body, returnsRes) ==
    CHOOSE end \in
      {IF res.threw THEN Reject(res.value)
       ELSE LET error == GetProp(res.value, "error")
            IN IF error.threw THEN Reject(error.value)
               ELSE IF Truthy(error.value) THEN Reject(error.value)
               ELSE Resolve(IF returnsRes THEN res.value ELSE Undefined) :
       res \in {JSONparse(body)}} : TRUE

\* insert of the envelope snapshot: try { throw JSON.parse(res).error }
\* catch (e) { if (!(e instanceof SyntaxError)) throw e }, and then the
\* parsed text for an array document, the text itself otherwise.
InsertEnvelope(body, document) ==
    CHOOSE end \in
      {IF ~(e.t = "Error" /\ e.v = "SyntaxError") THEN Reject(e)
       ELSE IF IsArray(document) THEN ReturnJson(body)
       ELSE Resolve(Str(body)) :
       e \in {IF res.threw THEN res.value
              ELSE GetProp(res.value, "error").value :
              res \in {JSONparse(body)}}} : TRUE

\* insert of the two older snapshots: return await req.json() for an
\* array of documents, return await req.text() for one document.
InsertPlain(body, document) ==
    IF IsArray(document) THEN ReturnJson(body) ELSE Resolve(Str(body))

Settle(r, c, body) ==
    CASE r = "legacy" ->
           \* await (await fetch(...)).text(), the text dropped.
           (CASE c.op \in {"createTable", "dropTable", "delete", "update"} ->
                   Resolve(Undefined)
              [] c.op = "insert" -> InsertPlain(body, c.arg)
              [] OTHER -> ReturnJson(body))
      [] r = "text" ->
           (CASE c.op \in {"createTable", "dropTable", "update", "deleteUser"} ->
                   Sentinel(body)
              [] c.op = "insert" -> InsertPlain(body, c.arg)
              [] OTHER -> ReturnJson(body))
      [] r = "envelope" ->
           (CASE c.op \in {"createTable", "editTable", "dropTable", "delete",
                           "update", "deleteUser"} -> Envelope(body, FALSE)
              [] c.op = "insert" -> InsertEnvelope(body, c.arg)
              [] OTHER -> Envelope(body, TRUE))

\* The end of the call c of snapshot r on the outcome o of its request:
\* await fetch(...) or await req.json() / req.text() throws, or the method
\* goes on with the body.
Completion(r, c, o) ==
    IF o.kind = "failure" \/ o.stream = "errored"
    THEN Reject(ErrorObject("TypeError"))
    ELSE Settle(r, c, o.body)

\* What a call does when the promise it awaits has settled: after the
\* fetch it starts to read the body of the response (req.json() or
\* req.text(), its second await), after the read it runs to its end; a
\* rejection of either ends it.
Continuation(r, call) ==
    IF call.state = "ready" /\ call.outcome.kind = "response"
    THEN [state |-> "reading", value |-> Undefined]
    ELSE Completion(r, call.inv, call.outcome)

(***************************************************************************)
(* The calls a caller makes and the bodies a server answers with.          *)
(***************************************************************************)
AllInvocations ==
    {Invocation("createTable", t, "", "", x, Undefined) :
        t \in Tables, x \in {Undefined, Schema1}}
    \cup {Invocation("editTable", t, "", "", EditOpts, Undefined) : t \in Tables}
    \cup {Invocation(op, t, "", "", Undefined, Undefined) :
        op \in {"dropTable", "metaTable"}, t \in Tables}
    \cup {Invocation("meta", "", "", "", Undefined, Undefined)}
    \cup {Invocation("insert", t, "", "", x, Undefined) :
        t \in Tables, x \in {Doc1, Arr(<<Doc1, Doc2>>)}}
    \cup {Invocation("get", t, k, "", Undefined, x) :
        t \in Tables, k \in Keys, x \in {Undefined, Bool(TRUE)}}
    \cup {Invocation("delete", t, k, "", Undefined, Undefined) :
        t \in Tables, k \in Keys}
    \cup {Invocation("deleteByQuery", t, "", "", Str(Query1), Undefined) :
        t \in Tables}
    \cup {Invocation("update", t, k, "", Partial, Undefined) :
        t \in Tables, k \in Keys}
    \cup {Invocation("select", t, "", "", Undefined, Undefined) : t \in Tables}
    \cup {Invocation("select", t, "", "", Str(Query1), options) :
        t \in Tables, options \in {SelectOptions, SelectOptionsSorted}}
    \cup {Invocation("select", t, "", "", Undefined, SelectOptionsOrder) :
        t \in Tables}
    \cup {Invocation("createUser", "", "", "", x, Undefined) :
        x \in {Undefined, UserOptions}}
    \cup {Invocation(op, "", "", u, Undefined, Undefined) :
        op \in {"deleteUser", "regenerateToken"}, u \in Usernames}

Invocations(r) == {c \in AllInvocations : c.op \in Methods(r)}

\* Response bodies: the sentinel, a key as plain text, an error message as
\* plain text, and JSON texts (an error envelope, an envelope whose error
\* is the empty string, a document, an array of keys written with white
\* space, null, the JSON string "success").
Bodies ==
    {"success", "k1", "NotFoundError",
     JSONtext(ErrorEnvelope(Str("NotFoundError"))),
     JSONtext(ErrorEnvelope(Str(""))),
     JSONtext(WithKey(Doc1, "k1")),
     " [\"k1\", \"k2\"]\n",
     JSONtext(Null),
     JSONtext(Str("success"))}

(***************************************************************************)
(* The state machine.  calls holds every call made, in order; requests is  *)
(* what the transport was asked to send, in order, each request with the   *)
(* number of the call that issued it.                                      *)
(***************************************************************************)
Init ==
    /\ rev \in Revisions
    /\ ctor \in {[url |-> "http://localhost:8777",
                  auth |-> "UKTZOvKweOG6tyKQl3q1SZlNx7AthowA"],
                 [url |-> "https://db.example.com/", auth |-> ""]}
    /\ cookieDB = Constructor(ctor.url, ctor.auth)
    /\ calls = <<>>
    /\ requests = <<>>
    /\ store = [t \in {} |-> <<>>]
    /\ nextKey = 1
    /\ schemas = [t \in {} |-> Undefined]
    /\ users = [u \in {} |-> <<>>]

\* A method is called: it runs up to its first await, which is the fetch.
Call(c, max) ==
    /\ Len(calls) < max
    /\ c.op \in Methods(rev)
    /\ LET reqs == RequestsOf(cookieDB, rev, c)
           n == Len(calls) + 1
       IN /\ calls' = Append(calls, [inv |-> c, state |-> "awaiting",
                                     outcome |-> NoOutcome, value |-> Undefined])
          /\ requests' = requests \o
                [j \in 1..Len(reqs) |->
                    [call |-> n, request |-> reqs[j], outcome |-> NoOutcome]]
    /\ UNCHANGED <<rev, ctor, cookieDB, store, nextKey, schemas, users>>

\* A client that keeps one slot for the response in flight: the outcome goes
\* to the oldest call that is waiting.
WaiterOldest(i) ==
    CHOOSE k \in 1..Len(calls) :
      /\ calls[k].state = "awaiting"
      /\ \A m \in 1..(k - 1) : calls[m].state # "awaiting"

\* The call that awaits the fetch of call i: each call awaits the promise
\* of its own fetch (const req = await fetch(...)).
Waiter(i) == i

\* The transport settles the fetch of call i with the outcome o, which the
\* requests of the call record, and the awaiting call becomes ready to run.
Settled(i, o) ==
    /\ i \in 1..Len(calls)
    /\ calls[i].state = "awaiting"
    /\ calls[Waiter(i)].state = "awaiting"
    /\ requests' = [j \in 1..Len(requests) |->
                        IF requests[j].call = i
                        THEN [requests[j] EXCEPT !.outcome = o]
                        ELSE requests[j]]
    /\ calls' = [calls EXCEPT ![Waiter(i)].outcome = o,
                              ![Waiter(i)].state = "ready"]

\* An outcome arrives that some server or the network made up.
Deliver(i, o) ==
    /\ Settled(i, o)
    /\ UNCHANGED <<rev, ctor, cookieDB, store, nextKey, schemas, users>>

\* The read of the body of the response of call i settles with the outcome
\* o, the body as a whole or the failure of its stream, which the request
\* of the call records, and the reading call becomes ready to run.
BodySettled(i, o) ==
    /\ i \in 1..Len(calls)
    /\ calls[i].state = "reading"
    /\ requests' = [j \in 1..Len(requests) |->
                        IF requests[j].call = i
                        THEN [requests[j] EXCEPT !.outcome = o]
                        ELSE requests[j]]
    /\ calls' = [calls EXCEPT ![i].outcome = o, ![i].state = "read"]
    /\ UNCHANGED <<rev, ctor, cookieDB, store, nextKey, schemas, users>>

\* A client with a timeout: a call that is still waiting may give up.
ResumeOrTimeOut(i) ==
    /\ i \in 1..Len(calls)
    /\ calls[i].state \in {"awaiting", "ready", "reading", "read"}
    /\ \E end \in {IF calls[i].state \in {"awaiting", "reading"}
                    THEN Reject(ErrorObject("TimeoutError"))
                    ELSE Continuation(rev, calls[i])} :
          calls' = [calls EXCEPT ![i].state = end.state,
                                 ![i].value = end.value]
    /\ UNCHANGED <<rev, ctor, cookieDB, requests, store, nextKey, schemas, users>>

\* The call runs on from its await to its next await or to its end.
Resume(i) ==
    /\ i \in 1..Len(calls)
    /\ calls[i].state \in {"ready", "read"}
    /\ \E end \in {Continuation(rev, calls[i])} :
          calls' = [calls EXCEPT ![i].state = end.state,
                                 ![i].value = end.value]
    /\ UNCHANGED <<rev, ctor, cookieDB, requests, store, nextKey, schemas, users>>

Invoke == \E c \in Invocations(rev) : Call(c, MaxCalls)

\* The head of a response arrives.
Respond == \E i \in 1..Len(calls) : Deliver(i, Sent(""))

\* The body of a response has arrived.
RespondBody ==
    \E i \in 1..Len(calls), body \in Bodies : BodySettled(i, Response(body))

\* The fetch fails.
Fail == \E i \in 1..Len(calls) : Deliver(i, Failure)

\* The body stream of a response fails.
FailBody == \E i \in 1..Len(calls) : BodySettled(i, Broken)

Continue == \E i \in 1..Len(calls) : Resume(i)

Next == Invoke \/ Respond \/ RespondBody \/ Fail \/ FailBody \/ Continue

Spec == Init /\ [][Next]_vars

(***************************************************************************)
(* Several calls in flight at once, on a few of the methods and bodies.    *)
(***************************************************************************)
ConcurrentInvocations(r) ==
    {c \in Invocations(r) :
        \/ c.op = "createTable" /\ c.arg = Schema1
        \/ c.op = "insert" /\ c.arg = Doc1
        \/ c.op = "get" /\ c.options = Undefined
        \/ c.op = "delete"}

InvokeConcurrent == \E c \in ConcurrentInvocations(rev) : Call(c, MaxInFlight)

ConcurrentBodies ==
    {"success", "k1", JSONtext(ErrorEnvelope(Str("NotFoundError"))),
     JSONtext(WithKey(Doc1, "k1"))}

RespondConcurrentBody ==
    \E i \in 1..Len(calls), body \in ConcurrentBodies :
        BodySettled(i, Response(body))

NextConcurrent ==
    \/ InvokeConcurrent
    \/ Respond
    \/ RespondConcurrentBody
    \/ Fail
    \/ FailBody
    \/ Continue

SpecConcurrent == Init /\ [][NextConcurrent]_vars

(***************************************************************************)
(* Calls on tables and keys of any text: the driver puts the table, the    *)
(* key and the username into the path as they are.                         *)
(***************************************************************************)
TargetInvocations(r) ==
    {Invocation("get", t, k, "", Undefined, Undefined) :
        t \in {"users", "users/archive"}, k \in {"k1", "archive/k1"}}
    \cup {Invocation("delete", "users", k, "", Undefined, Undefined) :
            k \in {"k1", "archive"}}
    \cup {Invocation("deleteByQuery", t, "", "", Str(Query1), Undefined) :
            t \in IF r = "legacy" THEN {} ELSE {"users", "users/archive"}}

InvokeTargets == \E c \in TargetInvocations(rev) : Call(c, MaxTargets)

NextTargets == InvokeTargets \/ Fail \/ Continue

SpecTargets == Init /\ [][NextTargets]_vars

(***************************************************************************)
(* Calls that may wait for ever.  The event loop runs every continuation   *)
(* that is ready; nothing makes a response arrive.                         *)
(***************************************************************************)
LiveInvocations(r) ==
    {c \in Invocations(r) :
        \/ c.op = "createTable" /\ c.arg = Schema1
        \/ c.op = "insert" /\ c.arg = Doc1}

InvokeLive == \E c \in LiveInvocations(rev) : Call(c, MaxPending)

LiveBodies == {"success", JSONtext(ErrorEnvelope(Str("NotFoundError")))}

RespondLiveBody ==
    \E i \in 1..Len(calls), body \in LiveBodies : BodySettled(i, Response(body))

NextLive ==
    InvokeLive \/ Respond \/ RespondLiveBody \/ Fail \/ FailBody \/ Continue

SpecLive ==
    /\ Init
    /\ [][NextLive]_vars
    /\ \A i \in 1..MaxPending : WF_vars(Resume(i))


(***************************************************************************)
(* A CookieDB server, as the driver's documentation describes it: tables   *)
(* of documents under keys the server hands out, and users with tokens.    *)
(* store maps each table to its rows, in the order of insertion, schemas   *)
(* each table to its schema (undefined for a table without one), users     *)
(* each user to the tokens it has had, the current one last.  The server   *)
(* of the envelope snapshot answers in JSON ({"error": message} for an     *)
(* error), the server of the older snapshots with the text success or the  *)
(* message; the key of a single inserted document is plain text for all of *)
(* them.                                                                   *)
(***************************************************************************)
SuccessReply(r) == IF r = "envelope" THEN JSONtext(Obj(<<>>)) ELSE "success"

ErrorReply(r, msg) ==
    IF r = "envelope" THEN JSONtext(ErrorEnvelope(Str(msg))) ELSE msg

Route(op, table, key) == [op |-> op, table |-> table, key |-> key]

\* The names of the tables the callers of the model have for a server, in
\* the order the server lists them.
ServerTables == <<"users", "deprecatedUsers">>

ServerRoutes ==
    {Route(op, ServerTables[n], "") :
        op \in {"createTable", "editTable", "dropTable", "metaTable", "insert",
                "select", "deleteByQuery"},
        n \in 1..Len(ServerTables)}
    \cup {Route(op, ServerTables[n], k) :
            op \in {"get", "delete", "update"}, n \in 1..Len(ServerTables),
            k \in ServerKeys}
    \cup {Route("meta", "", ""), Route("createUser", "", "")}
    \cup {Route(op, "", u) : op \in {"deleteUser", "regenerateToken"},
                             u \in {"cookie_fan", "cookie fan"}}

\* The path of a route; key holds the username of a route of a user.  A
\* path is compared as the driver hands it to fetch: what fetch encodes in
\* it (a space of a username) the server decodes.
RoutePath(x) ==
    CASE x.op = "createTable" -> "/create/" \o x.table
      [] x.op = "editTable" -> "/edit/" \o x.table
      [] x.op = "deleteByQuery" -> "/delete/" \o x.table
      [] x.op = "meta" -> "/meta"
      [] x.op = "dropTable" -> "/drop/" \o x.table
      [] x.op = "metaTable" -> "/meta/" \o x.table
      [] x.op = "insert" -> "/insert/" \o x.table
      [] x.op = "select" -> "/select/" \o x.table
      [] x.op = "get" -> "/get/" \o x.table \o "/" \o x.key
      [] x.op = "delete" -> "/delete/" \o x.table \o "/" \o x.key
      [] x.op = "update" -> "/update/" \o x.table \o "/" \o x.key
      [] x.op = "createUser" -> "/create_user"
      [] x.op = "deleteUser" -> "/delete_user/" \o x.key
      [] x.op = "regenerateToken" -> "/regenerate_token/" \o x.key

\* The route a url addresses on the server at base, if any.
RouteOf(base, url) ==
    LET hits == {x \in ServerRoutes : base \o RoutePath(x) = url}
    IN IF hits = {} THEN Route("none", "", "") ELSE CHOOSE x \in hits : TRUE

\* The state of the server.
Server(st, nk, sch, us) ==
    [store |-> st, nextKey |-> nk, schemas |-> sch, users |-> us]

Reply(sv, body) == [server |-> sv, body |-> body]

HasRow(rows, k) == \E n \in 1..Len(rows) : rows[n].key = k

RowOf(rows, k) == rows[CHOOSE n \in 1..Len(rows) : rows[n].key = k]

\* The value tags a type descriptor of a schema admits.
Admits(descriptor) ==
    CASE descriptor = "string" -> {"string"}
      [] descriptor = "nullable string" -> {"string", "null"}
      [] descriptor = "number" -> {"number"}
      [] descriptor = "boolean" -> {"boolean"}
      [] descriptor = "unique string" -> {"string"}
      [] descriptor = "string nullable unique" -> {"string", "null"}
      [] OTHER -> {}

RECURSIVE Conforms(_, _)

\* The document has exactly the fields of the schema, each of its type; a
\* table without a schema takes every document.
Conforms(document, schema) ==
    \/ schema.t = "undefined"
    \/ /\ document.t = "object"
       /\ schema.t = "object"
       /\ \A n \in 1..Len(document.v) : HasField(schema, document.v[n].k)
       /\ \A n \in 1..Len(schema.v) :
            /\ HasField(document, schema.v[n].k)
            /\ LET value == GetProp(document, schema.v[n].k).value
                   type == schema.v[n].v
               IN IF type.t = "string" THEN value.t \in Admits(type.v)
                  ELSE Conforms(value, type)

\* Does the document satisfy the query?  No query selects every document.
Matches(where, document) ==
    CASE where.t = "undefined" -> TRUE
      [] where = Str(QueryReadme) ->
            /\ HasField(document, "name")
            /\ GetProp(document, "name").value \in
                 {Str("cookie_fan"), Str("cookie_monster")}
      [] where = Str(Query1) ->
            /\ HasField(document, "age")
            /\ GetProp(document, "age").value = Num(20)
      [] OTHER -> FALSE

\* The token the server generates for a user that has had the tokens of
\* history: the first generated token that is not among them.
FreshToken(history) ==
    TokenOf(CHOOSE n \in 1..(Len(history) + 1) :
              /\ \A m \in 1..Len(history) : history[m] # TokenOf(n)
              /\ \A k \in 1..(n - 1) :
                    \E m \in 1..Len(history) : history[m] = TokenOf(k))

UserReply(username, token) ==
    JSONtext(Obj(<<Prop("username", Str(username)), Prop("token", Str(token))>>))

\* The member of the options of a request, undefined when it is not there.
Member(x, name) ==
    IF HasField(x, name) THEN GetProp(x, name).value ELSE Undefined

\* The body of the request q parsed: undefined when q has no body.
BodyOf(q) ==
    IF q.body.t = "undefined" THEN Normal(Undefined) ELSE JSONparse(q.body.v)

\* The server refuses a request: its state stays, it answers with the error.
Refuse(r, sv, msg) == Reply(sv, ErrorReply(r, msg))

\* The route x names a table, or a row, that the server does not have.
NoTable(sv, x) == x.table \notin DOMAIN sv.store

NoRow(sv, x) == NoTable(sv, x) \/ ~HasRow(sv.store[x.table], x.key)

ServeCreateTable(r, sv, x, body) ==
    IF ~NoTable(sv, x) THEN Refuse(r, sv, "ConflictError")
    ELSE IF body.threw \/ body.value.t \notin {"undefined", "object"}
    THEN Refuse(r, sv, "ValidationError")
    ELSE Reply([sv EXCEPT
                  !.store = [t \in DOMAIN sv.store \cup {x.table} |->
                               IF t = x.table THEN <<>> ELSE sv.store[t]],
                  !.schemas = [t \in DOMAIN sv.store \cup {x.table} |->
                                 IF t = x.table THEN body.value
                                 ELSE sv.schemas[t]]],
               SuccessReply(r))

ServeDropTable(r, sv, x) ==
    IF NoTable(sv, x) THEN Refuse(r, sv, "NotFoundError")
    ELSE Reply([sv EXCEPT
                  !.store = [t \in DOMAIN sv.store \ {x.table} |-> sv.store[t]],
                  !.schemas = [t \in DOMAIN sv.store \ {x.table} |->
                                 sv.schemas[t]]],
               SuccessReply(r))

ServeMetaTable(r, sv, x) ==
    IF NoTable(sv, x) THEN Refuse(r, sv, "NotFoundError")
    ELSE Reply(sv, JSONtext(Obj(<<Prop("schema", sv.schemas[x.table]),
                                  Prop("size", Num(Len(sv.store[x.table])))>>)))

\* The tables of the server with their schemas, and the size of the
\* database.
ServeMeta(r, sv, size) ==
    Reply(sv, JSONtext(Obj(<<
        Prop("tables",
             Obj([n \in 1..Len(SelectSeq(ServerTables,
                                         LAMBDA t : t \in DOMAIN sv.store)) |->
                    Prop(SelectSeq(ServerTables,
                                   LAMBDA t : t \in DOMAIN sv.store)[n],
                         Obj(<<Prop("schema",
                                    sv.schemas[SelectSeq(ServerTables,
                                        LAMBDA t : t \in DOMAIN sv.store)[n]])
                             >>))])),
        Prop("size", Num(size))>>)))

RECURSIVE Projected(_, _)

\* The document as the alias re-projects it: a field for each field of the
\* alias, which is the field of the document the alias refers to ($name),
\* or the projection by a nested alias.
Projected(document, alias) ==
    Obj([n \in 1..Len(alias.v) |->
           Prop(alias.v[n].k,
                IF alias.v[n].v.t = "object"
                THEN Projected(document, alias.v[n].v)
                ELSE IF alias.v[n].v.t = "string" /\ CharAt(alias.v[n].v.v, 1) = "$"
                THEN Member(document, SubSeq(alias.v[n].v.v, 2,
                                             Len(alias.v[n].v.v)))
                ELSE Undefined)])

\* The table as the opts edit it: under the name of the opts, with their
\* schema as its schema and with its documents as their alias re-projects
\* them, each of the three as it was when the opts do not have it.
ServeEditTable(r, sv, x, body) ==
    IF NoTable(sv, x) THEN Refuse(r, sv, "NotFoundError")
    ELSE IF body.threw \/ body.value.t # "object"
    THEN Refuse(r, sv, "ValidationError")
    ELSE LET to == IF Member(body.value, "name").t = "string"
                   THEN Member(body.value, "name").v ELSE x.table
             schema == IF Member(body.value, "schema").t = "object"
                       THEN Member(body.value, "schema")
                       ELSE sv.schemas[x.table]
             rows == IF Member(body.value, "alias").t = "object"
                     THEN [n \in 1..Len(sv.store[x.table]) |->
                             [key |-> sv.store[x.table][n].key,
                              doc |-> Projected(sv.store[x.table][n].doc,
                                                Member(body.value, "alias"))]]
                     ELSE sv.store[x.table]
             tables == (DOMAIN sv.store \ {x.table}) \cup {to}
         IN IF to # x.table /\ to \in DOMAIN sv.store
            THEN Refuse(r, sv, "ConflictError")
            ELSE IF \E n \in 1..Len(rows) : ~Conforms(rows[n].doc, schema)
            THEN Refuse(r, sv, "ValidationError")
            ELSE Reply([sv EXCEPT
                          !.store = [t \in tables |->
                                       IF t = to THEN rows ELSE sv.store[t]],
                          !.schemas = [t \in tables |->
                                         IF t = to THEN schema
                                         ELSE sv.schemas[t]]],
                       SuccessReply(r))

\* The rows of the documents, keyed from the key number nk on.
NewRows(documents, nk) ==
    [m \in 1..Len(documents) |->
        [key |-> KeyOf(nk + m - 1), doc |-> documents[m]]]

ServeInsert(r, sv, x, body) ==
    IF NoTable(sv, x) THEN Refuse(r, sv, "NotFoundError")
    ELSE IF body.threw \/ body.value.t = "undefined"
    THEN Refuse(r, sv, "ValidationError")
    ELSE IF IsArray(body.value)
    THEN IF \E m \in 1..Len(body.value.v) :
              ~Conforms(body.value.v[m], sv.schemas[x.table])
         THEN Refuse(r, sv, "ValidationError")
         ELSE Reply([sv EXCEPT
                       !.store[x.table] = @ \o NewRows(body.value.v, sv.nextKey),
                       !.nextKey = @ + Len(body.value.v)],
                    JSONtext(Arr([m \in 1..Len(body.value.v) |->
                                    Str(KeyOf(sv.nextKey + m - 1))])))
    ELSE IF ~Conforms(body.value, sv.schemas[x.table])
    THEN Refuse(r, sv, "ValidationError")
    ELSE Reply([sv EXCEPT
                  !.store[x.table] = @ \o NewRows(<<body.value>>, sv.nextKey),
                  !.nextKey = @ + 1],
               KeyOf(sv.nextKey))

ServeGet(r, sv, x) ==
    IF NoRow(sv, x) THEN Refuse(r, sv, "NotFoundError")
    ELSE Reply(sv, JSONtext(WithKey(RowOf(sv.store[x.table], x.key).doc, x.key)))

ServeDelete(r, sv, x) ==
    IF NoRow(sv, x) THEN Refuse(r, sv, "NotFoundError")
    ELSE Reply([sv EXCEPT !.store[x.table] =
                            SelectSeq(@, LAMBDA row : row.key # x.key)],
               SuccessReply(r))

\* The documents of the query are deleted, the answer their keys in order.
ServeDeleteByQuery(r, sv, x, body) ==
    IF NoTable(sv, x) THEN Refuse(r, sv, "NotFoundError")
    ELSE IF body.threw \/ body.value.t # "object"
    THEN Refuse(r, sv, "ValidationError")
    ELSE Reply([sv EXCEPT !.store[x.table] =
                   SelectSeq(@, LAMBDA row :
                                  ~Matches(Member(body.value, "where"),
                                           row.doc))],
               JSONtext(Arr([n \in 1..Len(SelectSeq(sv.store[x.table],
                                LAMBDA row : Matches(Member(body.value, "where"),
                                                     row.doc))) |->
                               Str(SelectSeq(sv.store[x.table],
                                     LAMBDA row :
                                       Matches(Member(body.value, "where"),
                                               row.doc))[n].key)])))

\* The document under the key is replaced by itself with the fields of
\* the body merged in.
ServeUpdate(r, sv, x, body) ==
    IF NoRow(sv, x) THEN Refuse(r, sv, "NotFoundError")
    ELSE IF body.threw \/ body.value.t # "object"
    THEN Refuse(r, sv, "ValidationError")
    ELSE IF ~Conforms(Merge(RowOf(sv.store[x.table], x.key).doc, body.value),
                      sv.schemas[x.table])
    THEN Refuse(r, sv, "ValidationError")
    ELSE Reply([sv EXCEPT !.store[x.table] =
                   [n \in 1..Len(@) |->
                      IF @[n].key = x.key
                      THEN [key |-> x.key,
                            doc |-> Merge(@[n].doc, body.value)]
                      ELSE @[n]]],
               SuccessReply(r))

\* The documents of the query: the first max_results of them when it is a
\* number that is not negative, all of them otherwise, each with its key
\* unless show_keys is false.
ServeSelect(r, sv, x, body) ==
    IF NoTable(sv, x) THEN Refuse(r, sv, "NotFoundError")
    ELSE IF body.threw \/ body.value.t # "object"
    THEN Refuse(r, sv, "ValidationError")
    ELSE LET max == Member(body.value, "max_results")
             rows == SelectSeq(sv.store[x.table],
                               LAMBDA row : Matches(Member(body.value, "where"),
                                                    row.doc))
             count == IF max.t = "number" /\ max.v >= 0 /\ max.v < Len(rows)
                      THEN max.v ELSE Len(rows)
         IN Reply(sv, JSONtext(Arr(
                [n \in 1..count |->
                   IF Member(body.value, "show_keys") = Bool(FALSE)
                   THEN rows[n].doc
                   ELSE WithKey(rows[n].doc, rows[n].key)])))

\* The name and the token of the user to create: the given ones, the
\* server's own for what is not given.
NewUsername(options) ==
    IF Member(options, "username").t = "string"
    THEN Member(options, "username").v ELSE "cookie_fan"

NewToken(options) ==
    IF Member(options, "token").t = "string"
    THEN Member(options, "token").v ELSE FreshToken(<<>>)

ServeCreateUser(r, sv, body) ==
    IF body.threw \/ body.value.t \notin {"undefined", "object"}
    THEN Refuse(r, sv, "ValidationError")
    ELSE IF NewUsername(body.value) \in DOMAIN sv.users
    THEN Refuse(r, sv, "ConflictError")
    ELSE Reply([sv EXCEPT !.users =
                   [u \in DOMAIN sv.users \cup {NewUsername(body.value)} |->
                      IF u = NewUsername(body.value)
                      THEN <<NewToken(body.value)>> ELSE sv.users[u]]],
               UserReply(NewUsername(body.value), NewToken(body.value)))

\* A new token for the user.  The server of the repository's test answers
\* the regenerateToken of a user it has not created with a token
\* (src/mod_test.ts lines 139 to 149): the user is then one it has.
ServeRegenerateToken(r, sv, x) ==
    IF x.key \notin DOMAIN sv.users
    THEN Reply([sv EXCEPT !.users =
                   [u \in DOMAIN sv.users \cup {x.key} |->
                      IF u = x.key THEN <<FreshToken(<<>>)>> ELSE sv.users[u]]],
               UserReply(x.key, FreshToken(<<>>)))
    ELSE Reply([sv EXCEPT !.users[x.key] = Append(@, FreshToken(@))],
               UserReply(x.key, FreshToken(sv.users[x.key])))

ServeDeleteUser(r, sv, x) ==
    IF x.key \notin DOMAIN sv.users THEN Refuse(r, sv, "NotFoundError")
    ELSE Reply([sv EXCEPT !.users =
                   [u \in DOMAIN sv.users \ {x.key} |-> sv.users[u]]],
               SuccessReply(r))

\* What the server at base does with the request q in the state sv, size
\* the size of its database.
Handle(r, base, sv, q, size) ==
    LET x == RouteOf(base, q.url)
    IN CASE x.op = "createTable" -> ServeCreateTable(r, sv, x, BodyOf(q))
         [] x.op = "editTable" -> ServeEditTable(r, sv, x, BodyOf(q))
         [] x.op = "dropTable" -> ServeDropTable(r, sv, x)
         [] x.op = "metaTable" -> ServeMetaTable(r, sv, x)
         [] x.op = "meta" -> ServeMeta(r, sv, size)
         [] x.op = "deleteByQuery" -> ServeDeleteByQuery(r, sv, x, BodyOf(q))
         [] x.op = "insert" -> ServeInsert(r, sv, x, BodyOf(q))
         [] x.op = "get" -> ServeGet(r, sv, x)
         [] x.op = "delete" -> ServeDelete(r, sv, x)
         [] x.op = "update" -> ServeUpdate(r, sv, x, BodyOf(q))
         [] x.op = "select" -> ServeSelect(r, sv, x, BodyOf(q))
         [] x.op = "createUser" -> ServeCreateUser(r, sv, BodyOf(q))
         [] x.op = "regenerateToken" -> ServeRegenerateToken(r, sv, x)
         [] x.op = "deleteUser" -> ServeDeleteUser(r, sv, x)
         [] OTHER -> Refuse(r, sv, "NotFoundError")

\* The calls of a script against the server.
ServerInvocations(r) ==
    {Invocation("createTable", t, "", "", Undefined, Undefined) : t \in Tables}
    \cup {Invocation("insert", t, "", "", x, Undefined) :
            t \in Tables,
            x \in {Doc1, Arr(<<Doc1, Doc2>>),
                   Obj(<<Prop("error", Str("disk full")),
                         Prop("host", Str("db1"))>>)}}
    \cup {Invocation(op, t, k, "", Undefined, Undefined) :
            op \in {"get", "delete"}, t \in Tables, k \in {"k1", "k2"}}

\* A caller that awaits each call before it makes the next.
InvokeScript ==
    /\ \A i \in 1..Len(calls) : calls[i].state \in {"resolved", "rejected"}
    /\ \E c \in ServerInvocations(rev) : Call(c, MaxScript)

\* The server handles the request of a waiting call and sends its response,
\* of which the head arrives.
Serve ==
    \E i \in 1..Len(calls) :
      /\ calls[i].state = "awaiting"
      /\ \E size \in {0, 179} :
           \E h \in {Handle(rev, cookieDB.url,
                             Server(store, nextKey, schemas, users),
                             requests[CHOOSE j \in 1..Len(requests) :
                                        requests[j].call = i].request,
                             size)} :
             /\ Settled(i, Sent(h.body))
             /\ store' = h.server.store
             /\ nextKey' = h.server.nextKey
             /\ schemas' = h.server.schemas
             /\ users' = h.server.users
      /\ UNCHANGED <<rev, ctor, cookieDB>>

\* The body the server sent has arrived.
ServeBody ==
    \E i \in 1..Len(calls) : BodySettled(i, Response(calls[i].outcome.body))

NextServer ==
    InvokeScript \/ Serve \/ ServeBody \/ Fail \/ FailBody \/ Continue

SpecServer == Init /\ [][NextServer]_vars


(***************************************************************************)
(* The README's demo against the server, as the README has it and as the   *)
(* repository's test runs it: a caller that awaits each call, stops at the *)
(* first call that rejects, and passes the key its insert returned on to   *)
(* the calls that follow.  The caller may leave calls of the demo out and  *)
(* choose among a few arguments.                                           *)
(***************************************************************************)
\* The number of the latest call of the method op, 0 when there is none.
LastIndex(op) ==
    IF \E i \in 1..Len(calls) : calls[i].inv.op = op
    THEN CHOOSE i \in 1..Len(calls) :
           /\ calls[i].inv.op = op
           /\ \A j \in (i + 1)..Len(calls) : calls[j].inv.op # op
    ELSE 0

\* The calls the caller may make next.  cookieFanKey is the key its latest
\* insert returned, username the name its latest createUser returned.
DemoInvocations ==
    LET last == IF Len(calls) = 0 THEN "none" ELSE calls[Len(calls)].inv.op
        cookieFanKey ==
            IF calls[LastIndex("insert")].value.t = "string"
            THEN calls[LastIndex("insert")].value.v ELSE ""
        username ==
            IF Member(calls[LastIndex("createUser")].value, "username").t
                  = "string"
            THEN Member(calls[LastIndex("createUser")].value, "username").v
            ELSE ""
        inserts == {Invocation("insert", "users", "", "", d, Undefined) :
                       d \in {Doc1, Doc2}}
        reads == {Invocation("get", "users", cookieFanKey, "", Undefined, Undefined)}
        selects == {Invocation("select", "users", "", "", Str(QueryReadme),
                               SelectOptions)}
        drops == {Invocation("dropTable", "users", "", "", Undefined,
                             Undefined)}
        creates == {Invocation("createUser", "", "", "", options, Undefined) :
                      options \in {Undefined, UserOptions, UserOptionsToken1,
                                   UserOptionsTest}}
        regenerates == {Invocation("regenerateToken", "", "", "cookie_fan",
                                   Undefined, Undefined)}
    IN CASE last = "none" ->
              {Invocation("createTable", "users", "", "", schema, Undefined) :
                  schema \in Schemas \cup {Undefined}}
              \cup creates
         [] last = "createTable" ->
              {Invocation("metaTable", "users", "", "", Undefined, Undefined)}
              \cup inserts
         [] last = "metaTable" ->
              {Invocation("meta", "", "", "", Undefined, Undefined)}
              \cup inserts
         [] last = "meta" -> inserts
         [] last = "insert" -> reads
         [] last = "get" ->
              IF LastIndex("update") > LastIndex("insert") THEN selects
              ELSE {Invocation("update", "users", cookieFanKey, "", document,
                               Undefined) :
                      document \in
                        {Partial, Doc1Updated,
                         Obj(<<Prop("error", Str("quota exceeded"))>>)}}
         [] last = "update" -> reads \cup selects
         [] last = "select" ->
              {Invocation("delete", "users", cookieFanKey, "", Undefined, Undefined)}
         [] last = "delete" ->
              {Invocation("deleteByQuery", "users", "", "", Str(QueryReadme),
                          Undefined)}
              \cup drops
         [] last = "deleteByQuery" ->
              {Invocation("editTable", "users", "", "", EditOpts, Undefined)}
              \cup drops
         [] last = "editTable" ->
              {Invocation("dropTable", "deprecatedUsers", "", "", Undefined,
                          Undefined)}
         [] last = "dropTable" -> creates
         [] last = "createUser" -> regenerates
         [] last = "regenerateToken" ->
              regenerates
              \cup {Invocation("deleteUser", "", "", username, Undefined,
                               Undefined)}
         [] last = "deleteUser" -> {}

InvokeDemo ==
    /\ \A i \in 1..Len(calls) : calls[i].state = "resolved"
    /\ \E c \in DemoInvocations : Call(c, MaxDemo)

NextDemo == InvokeDemo \/ Serve \/ ServeBody \/ Fail \/ FailBody \/ Continue

SpecDemo == Init /\ [][NextDemo]_vars


(***************************************************************************)
(* Properties.                                                             *)
(***************************************************************************)
Done(i) == calls[i].state \in {"resolved", "rejected"}

\* Call i has ended on a response whose body it has read (not on a
\* transport failure).
Answered(i) ==
    /\ Done(i)
    /\ calls[i].outcome.kind = "response"
    /\ calls[i].outcome.stream = "closed"

\* The body is a JSON text.
IsJson(body) == ~JSONparse(body).threw

RequestsOfCall(i) == {j \in 1..Len(requests) : requests[j].call = i}

HasErrorField(x) == x.t = "object" /\ \E k \in 1..Len(x.v) : x.v[k].k = "error"

ReturnsResult(op) ==
    op \in {"metaTable", "insert", "get", "deleteByQuery", "select", "meta",
            "createUser", "regenerateToken"}

\* The JSON values a server answers with: an object or an array, the error
\* field of an object, when it has one, a message that is not empty.
ServerJson(x) ==
    /\ x.t \in {"object", "array"}
    /\ HasErrorField(x) =>
          LET error == GetProp(x, "error").value
          IN error.t = "string" /\ error.v # ""

\* The outcome the transport recorded for the request of call i.
OwnOutcome(i) == requests[CHOOSE j \in 1..Len(requests) : requests[j].call = i].outcome

\* C10: with several calls in flight, whatever the order of the responses,
\* a call that has ended ended as the outcome of its own request makes it
\* end, and the requests left in the order of the calls, each with its call
\* (none held back, none merged with another).
C10_OwnResponse ==
    /\ Len(requests) = Len(calls)
    /\ \A j \in 1..Len(requests) : requests[j].call = j
    /\ \A i \in 1..Len(calls) :
          Done(i) =>
            /\ OwnOutcome(i).kind # "none"
            /\ [state |-> calls[i].state, value |-> calls[i].value]
                 = Completion(rev, calls[i].inv, OwnOutcome(i))

C10_Witness ==
    /\ Len(calls) = 2
    /\ calls[1].state = "awaiting"
    /\ calls[2].state = "rejected"
    /\ calls[2].value = Str("NotFoundError")
    /\ OwnOutcome(1).kind = "none"

\* C1: in the envelope snapshot, a call answered with a JSON value of a
\* server rejects with the value of its error field when it has one, and
\* resolves otherwise, to the whole JSON value when the method returns a
\* result.
C1_EnvelopeContract ==
    rev = "envelope" =>
      \A i \in 1..Len(calls) :
        (/\ Answered(i)
         /\ IsJson(calls[i].outcome.body)
         /\ ServerJson(JSONparse(calls[i].outcome.body).value)) =>
          LET res == JSONparse(calls[i].outcome.body).value
          IN IF HasErrorField(res)
             THEN /\ calls[i].state = "rejected"
                  /\ calls[i].value = GetProp(res, "error").value
             ELSE /\ calls[i].state = "resolved"
                  /\ ReturnsResult(calls[i].inv.op) => calls[i].value = res

\* No call between call i and call j deletes the key k of table t.
KeptBetween(i, j, t, k) ==
    \A m \in (i + 1)..(j - 1) :
      ~(calls[m].inv.op = "delete" /\ calls[m].inv.table = t
          /\ calls[m].inv.key = k)

\* A get of key k of table t, made after call i, that has ended on the
\* response it has read.
GetAfter(i, j, t, k) ==
    /\ j \in (i + 1)..Len(calls)
    /\ Answered(j)
    /\ calls[j].inv.op = "get" /\ calls[j].inv.table = t /\ calls[j].inv.key = k
    /\ KeptBetween(i, j, t, k)

\* The arrays of keys a server answers an insert of documents with.
KeyArrays ==
    {Arr(<<>>)} \cup {Arr(<<Str(KeyOf(n)), Str(KeyOf(n + 1))>>) :
                         n \in 1..(2 * MaxScript)}

\* C2: an insert of an array of n documents that the server accepted (it
\* answered with the array of the keys) resolves to the n keys in the order
\* of the documents, and a following get of the m-th key yields the m-th
\* document.
C2_ArrayInsertKeys ==
    \A i \in 1..Len(calls) :
      (/\ Answered(i)
       /\ calls[i].inv.op = "insert" /\ IsArray(calls[i].inv.arg)
       /\ IsJson(calls[i].outcome.body)
       /\ JSONparse(calls[i].outcome.body).value \in KeyArrays) =>
         LET documents == calls[i].inv.arg.v
             keys == calls[i].value
         IN /\ calls[i].state = "resolved"
            /\ IsArray(keys)
            /\ Len(keys.v) = Len(documents)
            /\ \A m \in 1..Len(documents) :
                 /\ keys.v[m].t = "string"
                 /\ HasRow(store[calls[i].inv.table], keys.v[m].v) =>
                      RowOf(store[calls[i].inv.table], keys.v[m].v).doc = documents[m]
                 /\ \A j \in 1..Len(calls) :
                      GetAfter(i, j, calls[i].inv.table, keys.v[m].v) =>
                        /\ calls[j].state = "resolved"
                        /\ calls[j].value = WithKey(documents[m], keys.v[m].v)

\* C3: an insert of a single document D that the server accepted (it answered
\* with a key) resolves to the key K, and a following get of K resolves to D
\* with the field key: K.
C3_InsertGetRoundTrip ==
    \A i \in 1..Len(calls) :
      (/\ Answered(i)
       /\ calls[i].inv.op = "insert" /\ ~IsArray(calls[i].inv.arg)
       /\ calls[i].outcome.body \in ServerKeys) =>
         /\ calls[i].state = "resolved"
         /\ calls[i].value = Str(calls[i].outcome.body)
         /\ \A j \in 1..Len(calls) :
              GetAfter(i, j, calls[i].inv.table, calls[i].outcome.body) =>
                /\ calls[j].state = "resolved"
                /\ calls[j].value =
                     WithKey(calls[i].inv.arg, calls[i].outcome.body)


\* C4: every call has issued exactly one request, whatever its end; the
\* request is a POST and carries the credential the constructor stored.
C4_OneRequestPerCall ==
    /\ Len(requests) = Len(calls)
    /\ \A i \in 1..Len(calls) : Cardinality(RequestsOfCall(i)) = 1
    /\ \A j \in 1..Len(requests) :
          /\ requests[j].call \in 1..Len(calls)
          /\ requests[j].request.method = "POST"
          /\ requests[j].request.Authorization = cookieDB.auth

C4_Witness ==
    \E i \in 1..Len(calls) :
      /\ calls[i].state = "rejected"
      /\ calls[i].inv.op = "dropTable"
      /\ Cardinality(RequestsOfCall(i)) = 1

SentinelRule(i) ==
    IF calls[i].outcome.body = "success"
    THEN calls[i].state = "resolved"
    ELSE calls[i].state = "rejected" /\ calls[i].value = Str(calls[i].outcome.body)

\* C5: in the text snapshot createTable, dropTable, update, delete and
\* deleteUser succeed on the body success and throw any other body.
C5_SentinelWithDelete ==
    rev = "text" =>
      \A i \in 1..Len(calls) :
        (Answered(i) /\ calls[i].inv.op \in
            {"createTable", "dropTable", "update", "delete", "deleteUser"})
          => SentinelRule(i)

\* C6: in every snapshot a delete that the server rejected rejects with the
\* error text the server returned.
C6_DeleteSurfacesError ==
    \A i \in 1..Len(calls) :
      (Answered(i) /\ calls[i].inv.op = "delete"
         /\ calls[i].outcome.body = ErrorReply(rev, "NotFoundError"))
        => /\ calls[i].state = "rejected"
           /\ calls[i].value = Str("NotFoundError")

\* The calls whose response the snapshot reads as JSON: every call but the
\* ones of the text endpoints, which are the calls whose text is dropped or
\* compared with the sentinel, and the insert of a single document, whose
\* success response is the key as plain text.
ExpectsJson(r, c) ==
    CASE c.op = "insert" -> IsArray(c.arg)
      [] r = "legacy" ->
           c.op \notin {"createTable", "dropTable", "delete", "update"}
      [] r = "text" ->
           c.op \notin {"createTable", "dropTable", "update", "deleteUser"}
      [] OTHER -> TRUE

TransportFailed(i) ==
    \/ calls[i].outcome.kind = "failure"
    \/ calls[i].outcome.stream = "errored"
    \/ /\ calls[i].outcome.kind = "response"
       /\ calls[i].outcome.stream = "closed"
       /\ ExpectsJson(rev, calls[i].inv)
       /\ ~IsJson(calls[i].outcome.body)

\* C7: a call whose fetch failed, whose response body failed to arrive, or
\* whose response body is not JSON where JSON is read, rejects, and with an
\* Error object, which no value a server reports (a JSON value or a body
\* text) is.
C7_TransportFailureRejects ==
    \A i \in 1..Len(calls) :
      (Done(i) /\ TransportFailed(i)) =>
        /\ calls[i].state = "rejected"
        /\ calls[i].value.t = "Error"
        /\ calls[i].value.v \in {"TypeError", "SyntaxError"}

C7_Witness ==
    /\ rev = "envelope"
    /\ \E i \in 1..Len(calls) :
          /\ calls[i].inv.op = "insert"
          /\ IsArray(calls[i].inv.arg)
          /\ calls[i].outcome.body = "k1"
          /\ calls[i].state = "rejected"
          /\ calls[i].value = ErrorObject("SyntaxError")

\* C8: the client holds the url it was constructed with, unchanged, and the
\* credential Bearer <token>; before any call no request has been issued.
C8_Constructor ==
    /\ cookieDB.url = ctor.url
    /\ cookieDB.auth = "Bearer " \o ctor.auth
    /\ calls = <<>> => requests = <<>>

C8_Witness ==
    /\ ctor.url = "https://db.example.com/"
    /\ ctor.auth = ""
    /\ cookieDB = [url |-> "https://db.example.com/", auth |-> "Bearer "]
    /\ calls = <<>>
    /\ requests = <<>>

\* The path of each operation as the wire contract lists it.
PathOf(c) ==
    CASE c.op = "createTable" -> "/create/" \o c.table
      [] c.op = "editTable" -> "/edit/" \o c.table
      [] c.op = "dropTable" -> "/drop/" \o c.table
      [] c.op = "metaTable" -> "/meta/" \o c.table
      [] c.op = "meta" -> "/meta"
      [] c.op = "insert" -> "/insert/" \o c.table
      [] c.op = "get" -> "/get/" \o c.table \o "/" \o c.key
      [] c.op = "update" -> "/update/" \o c.table \o "/" \o c.key
      [] c.op = "delete" -> "/delete/" \o c.table \o "/" \o c.key
      [] c.op = "deleteByQuery" -> "/delete/" \o c.table
      [] c.op = "select" -> "/select/" \o c.table
      [] c.op = "createUser" -> "/create_user"
      [] c.op = "deleteUser" -> "/delete_user/" \o c.username
      [] c.op = "regenerateToken" -> "/regenerate_token/" \o c.username

\* C9: every request targets the base url followed by the path of its
\* operation with the arguments substituted.
C9_Paths ==
    \A j \in 1..Len(requests) :
      requests[j].request.url = ctor.url \o PathOf(calls[requests[j].call].inv)

C9_Witness ==
    /\ rev = "envelope"
    /\ \E j \in 1..Len(requests) :
          /\ calls[requests[j].call].inv.op = "deleteByQuery"
          /\ requests[j].request.url = "http://localhost:8777/delete/users"

\* The calls of the end-to-end scenario, K the key the insert returned.
Scenario(K) ==
    << Invocation("createTable", "users", "", "", Schema1, Undefined),
       Invocation("insert", "users", "", "", Doc1, Undefined),
       Invocation("get", "users", K, "", Undefined, Undefined),
       Invocation("update", "users", K, "", Partial, Undefined),
       Invocation("select", "users", "", "", Str(QueryReadme), SelectOptions),
       Invocation("delete", "users", K, "", Undefined, Undefined),
       Invocation("dropTable", "users", "", "", Undefined, Undefined) >>

\* The value the call after call a resolved to, as a key.
KeyAfter(a) ==
    IF a + 1 <= Len(calls) /\ calls[a + 1].value.t = "string"
    THEN calls[a + 1].value.v ELSE ""

\* The calls a, ..., a + n - 1 are the first n calls of the scenario.
ScenarioAt(a, n) ==
    /\ a + n - 1 <= Len(calls)
    /\ \A m \in 1..n : calls[a + m - 1].inv = Scenario(KeyAfter(a))[m]

\* The updated document of the scenario as select returns it.
UpdatedDocument(K) ==
    Obj(<<Prop("name", Str("cookie_fan")),
          Prop("description", Str("a huge fan of cookies")),
          Prop("age", Num(21)),
          Prop("key", Str(K))>>)

ScenarioResult(a, n) ==
    LET call == calls[a + n - 1]
        K == KeyAfter(a)
    IN /\ call.state = "resolved"
       /\ n = 2 => call.value.t = "string" /\ call.value.v \in ServerKeys
       /\ n = 3 => call.value = WithKey(Doc1, K)
       /\ n = 5 => call.value = Arr(<<UpdatedDocument(K)>>)

\* C11: in the latest snapshot every call of the end-to-end scenario that
\* has ended on the response of the server has succeeded: the insert with a key K, the get with the
\* document and key: K, the select with exactly the one updated document
\* with key K, and update, delete and dropTable without an error.
C11_EndToEnd ==
    rev = "envelope" =>
      \A a \in 1..Len(calls), n \in 1..Len(Scenario("")) :
        (ScenarioAt(a, n) /\ Answered(a + n - 1)) => ScenarioResult(a, n)

C11_Witness ==
    /\ rev = "envelope"
    /\ ScenarioAt(1, Len(Scenario("")))
    /\ \A i \in 1..Len(Scenario("")) : calls[i].state = "resolved"
    /\ calls[5].value = Arr(<<UpdatedDocument("k1")>>)
    /\ "users" \notin DOMAIN store

\* The document the latest insert before call i stored.
InsertedBefore(i) ==
    calls[CHOOSE a \in 1..(i - 1) :
            /\ calls[a].inv.op = "insert"
            /\ \A b \in (a + 1)..(i - 1) : calls[b].inv.op # "insert"].inv.arg

\* got is the document with the fields of partial merged in, and the key K.
MergedRead(got, document, partial, K) ==
    /\ got.t = "object"
    /\ \A n \in 1..Len(got.v) :
          \/ HasField(partial, got.v[n].k)
          \/ HasField(document, got.v[n].k)
          \/ got.v[n].k = "key"
    /\ \A n \in 1..Len(partial.v) :
          GetProp(got, partial.v[n].k) = Normal(partial.v[n].v)
    /\ \A n \in 1..Len(document.v) :
          HasField(partial, document.v[n].k)
            \/ GetProp(got, document.v[n].k) = Normal(document.v[n].v)
    /\ GetProp(got, "key") = Normal(Str(K))

\* C12: after an update of the key K that the server accepted, the get of K
\* that follows, once it has the response of the server, resolves to the stored document with every field of the
\* partial document overwritten and every other field as it was.
C12_UpdateMerges ==
    \A i \in 1..Len(calls) :
      (/\ i + 1 <= Len(calls)
       /\ Answered(i)
       /\ calls[i].inv.op = "update"
       /\ calls[i].outcome.body = SuccessReply(rev)
       /\ calls[i + 1].inv.op = "get"
       /\ calls[i + 1].inv.key = calls[i].inv.key
       /\ Answered(i + 1)) =>
         /\ calls[i + 1].state = "resolved"
         /\ MergedRead(calls[i + 1].value, InsertedBefore(i), calls[i].inv.arg,
                       calls[i].inv.key)

\* The metadata of a table as metaTable returns it.
TableMeta(schema, size) ==
    Obj(<<Prop("schema", schema), Prop("size", Num(size))>>)

\* C13: a metaTable that follows a createTable(t, S) with a schema S, which
\* the server accepted (t was not in use), resolves, once it has the response
\* of the server, to {schema: S, size: 0}.
C13_CreateThenMeta ==
    \A i \in 1..Len(calls) :
      (/\ i + 1 <= Len(calls)
       /\ Answered(i)
       /\ calls[i].inv.op = "createTable"
       /\ calls[i].inv.arg \in Schemas
       /\ calls[i].outcome.body = SuccessReply(rev)
       /\ calls[i + 1].inv.op = "metaTable"
       /\ calls[i + 1].inv.table = calls[i].inv.table
       /\ Answered(i + 1)) =>
         /\ calls[i + 1].state = "resolved"
         /\ calls[i + 1].value = TableMeta(calls[i].inv.arg, 0)

C13_Witness ==
    /\ Len(calls) >= 2
    /\ calls[1].inv.op = "createTable"
    /\ calls[1].inv.arg = SchemaNested
    /\ calls[1].state = "resolved"
    /\ calls[2].inv.op = "metaTable"
    /\ calls[2].state = "resolved"
    /\ calls[2].value = TableMeta(SchemaNested, 0)
    /\ schemas["users"] = SchemaNested

\* Call i resolved to a user {username: u, token: ...}.
ReturnedUser(i, u) ==
    /\ calls[i].inv.op \in {"createUser", "regenerateToken"}
    /\ calls[i].state = "resolved"
    /\ HasField(calls[i].value, "username")
    /\ HasField(calls[i].value, "token")
    /\ GetProp(calls[i].value, "username").value = Str(u)

ReturnedToken(i) == GetProp(calls[i].value, "token").value

\* No call from call i to call j deletes the user u.
UserKept(i, j, u) ==
    \A m \in i..j :
      ~(calls[m].inv.op = "deleteUser" /\ calls[m].inv.username = u)

\* C14: a createUser({username: u, token: t}) that the server accepted
\* resolves to {username: u, token: t}, and a regenerateToken(u) that
\* follows it resolves, once it has the response of the server, to a user u whose token differs from t and from the
\* token of every regenerateToken(u) in between.
C14_RegeneratedTokenIsNew ==
    \A i \in 1..Len(calls) :
      /\ (/\ calls[i].inv.op = "createUser"
          /\ calls[i].inv.arg \in {UserOptions, UserOptionsToken1}
          /\ Answered(i)
          /\ calls[i].outcome.body = JSONtext(calls[i].inv.arg)) =>
            /\ calls[i].state = "resolved"
            /\ calls[i].value = calls[i].inv.arg
      /\ \A j \in (i + 1)..Len(calls), u \in Usernames :
           (/\ calls[i].inv.op = "createUser"
            /\ ReturnedUser(i, u)
            /\ calls[j].inv.op = "regenerateToken"
            /\ calls[j].inv.username = u
            /\ UserKept(i, j, u)
            /\ Answered(j)) =>
              /\ ReturnedUser(j, u)
              /\ \A m \in i..(j - 1) :
                   ReturnedUser(m, u) => ReturnedToken(m) # ReturnedToken(j)

C14_Witness ==
    /\ Len(calls) >= 3
    /\ calls[1].inv.op = "createUser"
    /\ calls[1].value = UserOptionsToken1
    /\ ReturnedUser(2, "cookie_fan")
    /\ ReturnedUser(3, "cookie_fan")
    /\ calls[3].inv.op = "regenerateToken"
    /\ ReturnedToken(2) = Str("token2")
    /\ ReturnedToken(3) = Str("token3")
    /\ users["cookie_fan"] = <<"token1", "token2", "token3">>

\* The outcome of the request of call i has arrived: its fetch has failed,
\* or its response is there with the body read to the end or broken off.
Arrived(i) ==
    \/ OwnOutcome(i).kind = "failure"
    \/ OwnOutcome(i).stream \in {"closed", "errored"}

Pending(i) == calls[i].state \in {"awaiting", "ready", "reading", "read"}

\* C15: a call has ended only if the outcome of its request (a response or
\* a transport failure) has arrived; a call that has ended stays as it
\* ended; a call whose outcome has not arrived after a step is still
\* pending after it, however many steps are taken; and a call whose
\* outcome has arrived eventually ends.
C15_CompletesOnceAfterArrival ==
    /\ [](\A i \in 1..Len(calls) : Done(i) => Arrived(i))
    /\ [][\A i \in 1..Len(calls) :
            /\ Done(i) => calls'[i] = calls[i]
            /\ (Pending(i) /\ ~Arrived(i)') =>
                  calls'[i].state \in {"awaiting", "ready", "reading"}]_vars
    /\ \A i \in 1..MaxPending :
          (i <= Len(calls) /\ Arrived(i)) ~> (i <= Len(calls) /\ Done(i))

C15_Witness ==
    /\ Len(calls) = 2
    /\ calls[1].state = "reading"
    /\ ~Arrived(1)
    /\ calls[2].state = "rejected"
    /\ calls[2].outcome = Broken
    /\ calls[2].value = ErrorObject("TypeError")

\* The member name of the options the caller passed, undefined when the
\* caller passed no options or left the member out.
Given(options, name) ==
    IF HasField(options, name) THEN GetProp(options, name).value ELSE Undefined

\* The field of the body is the value, and is absent for no value.
SentAs(body, field, value) ==
    IF value.t = "undefined" THEN ~HasField(body, field)
    ELSE GetProp(body, field) = Normal(value)

\* The field of the body is the value, and is the default for no value.
SentOrDefault(body, field, value, default) ==
    GetProp(body, field) = Normal(IF value.t = "undefined" THEN default ELSE value)

\* The body of the request of call i as the server parses it.
SentBody(i) ==
    JSONparse(requests[CHOOSE j \in 1..Len(requests) :
                         requests[j].call = i].request.body.v).value

\* The body is the one a select of the snapshot r sends for the where and
\* the options of the caller.
SelectBodyRule(r, where, options, body) ==
    /\ body.t = "object"
    /\ r = "envelope" =>
         /\ SentAs(body, "where", where)
         /\ SentAs(body, "max_results", Given(options, "maxResults"))
         /\ SentAs(body, "expand_keys", Given(options, "expandKeys"))
         /\ SentAs(body, "alias", Given(options, "alias"))
         /\ SentAs(body, "order", Given(options, "order"))
         /\ \A n \in 1..Len(body.v) :
              body.v[n].k \in {"where", "max_results", "expand_keys",
                               "alias", "order"}
    /\ r = "legacy" =>
         /\ SentAs(body, "where", where)
         /\ SentOrDefault(body, "max_results",
                          Given(options, "maxResults"), Num(-1))
         /\ SentOrDefault(body, "show_keys",
                          Given(options, "showKeys"), Bool(FALSE))
         /\ SentOrDefault(body, "expand_keys",
                          Given(options, "expandKeys"), Bool(FALSE))

\* C16: the body a select of the latest snapshot sends is a JSON object
\* whose fields where, max_results, expand_keys, alias and order are the
\* caller's where, maxResults, expandKeys, alias and order, each absent when
\* the caller left it unspecified, and it has no other field; the body a
\* select of the oldest snapshot sends has max_results -1, show_keys false
\* and expand_keys false for what the caller left unspecified.  The body is
\* looked at in the step that makes the call: a request sent stays as it is.
C16_SelectBody ==
    [][\A i \in (Len(calls) + 1)..Len(calls') :
         calls'[i].inv.op = "select" =>
           \A text \in {requests'[CHOOSE j \in 1..Len(requests') :
                                      requests'[j].call = i].request.body.v} :
             SelectBodyRule(rev, calls'[i].inv.arg, calls'[i].inv.options,
                            JSONparse(text).value)]_vars

C16_Witness ==
    /\ rev = "envelope"
    /\ \E i \in 1..Len(calls) :
          /\ calls[i].inv.op = "select"
          /\ calls[i].inv.arg = Undefined
          /\ calls[i].inv.options = SelectOptionsOrder
          /\ SentBody(i) = Obj(<<Prop("expand_keys", Bool(TRUE)),
                                 Prop("alias", Obj(<<Prop("name", Str("$name"))>>)),
                                 Prop("order", Obj(<<Prop("by", Str("age")),
                                                     Prop("descending", Bool(TRUE))>>))>>)

\* The request target of call i.
TargetOf(i) ==
    requests[CHOOSE j \in 1..Len(requests) : requests[j].call = i].request.url

\* Two calls differ in the operation or in the table, key or username.
DifferentTargets(c, d) ==
    \/ c.op # d.op
    \/ c.table # d.table
    \/ c.key # d.key
    \/ c.username # d.username

\* C17: two calls that differ in the operation or in the table, key or
\* username never have the same request target.
C17_TargetsUnambiguous ==
    \A i \in 1..Len(calls), j \in 1..Len(calls) :
      DifferentTargets(calls[i].inv, calls[j].inv) => TargetOf(i) # TargetOf(j)

\* The other of the two later snapshots.
OtherRevision(r) == IF r = "text" THEN "envelope" ELSE "text"

\* The call has arguments that both snapshots accept: a select has neither
\* showKeys nor alias.
AcceptedByBoth(c) ==
    /\ c.op \in Methods("text") \cap Methods("envelope")
    /\ c.op = "select" =>
         ~HasField(c.options, "showKeys") /\ ~HasField(c.options, "alias")

\* C18: the request of a call of the text snapshot or of the envelope
\* snapshot, on a method and with arguments that both have, is the request
\* the other of the two snapshots sends for the same call: the same url,
\* method, Authorization header and body.
C18_SameRequests ==
    rev \in {"text", "envelope"} =>
      \A j \in 1..Len(requests) :
        AcceptedByBoth(calls[requests[j].call].inv) =>
          LET other == RequestsOf(cookieDB, OtherRevision(rev),
                                  calls[requests[j].call].inv)[1]
          IN /\ requests[j].request.url = other.url
             /\ requests[j].request.method = other.method
             /\ requests[j].request.Authorization = other.Authorization
             /\ requests[j].request.body = other.body

C18_Witness ==
    /\ rev = "text"
    /\ \E j \in 1..Len(requests) :
          /\ calls[requests[j].call].inv.op = "select"
          /\ calls[requests[j].call].inv.options = SelectOptionsSorted
          /\ requests[j].request =
               RequestsOf(cookieDB, "envelope", calls[requests[j].call].inv)[1]
          /\ SentBody(requests[j].call) =
               Obj(<<Prop("where", Str(Query1)),
                     Prop("max_results", Num(5)),
                     Prop("expand_keys", Bool(TRUE)),
                     Prop("order", Obj(<<Prop("by", Str("age"))>>))>>)

====
